---- MODULE Spec2Model ----
(***************************************************************************)
(* Ring reconstruction of osmtools (src/src/geom.rs): Position, Line,      *)
(* MultiMap (the endpoint index), create_continuous_linering (the ring     *)
(* assembler), is_clockwise (the orientation normalizer), as_polygon,      *)
(* to_feature and write.                                                   *)
(***************************************************************************)
EXTENDS Integers, Sequences, FiniteSets, TLC

\* Total number of positions in the segment list handed to the assembler.
MaxPositions == 7

\* The same, for the calls whose termination is checked.
MaxFairPositions == 6

\* Keys and values of the MultiMap used on its own.
MaxKeys == 2

MaxValues == 3

\* Size of a relation: one per member plus one per node of a member way.
MaxAreaSize == 6

\* Size of a relation of the dataset handed to write.
MaxWriteAreaSize == 3

\* Number of objects of the dataset handed to write.
MaxBatch == 2

\* Bits of precision of the floating-point arithmetic of the model (f64 has
\* 53): every result is rounded to this many significant bits, to nearest,
\* ties to even, as IEEE 754 does.
MantissaBits == 4

\* Number of positions of a ring handed to the orientation normalizer.
MaxRingLen == 6

\* Number of positions of each of the two Lines handed to Line::extend.
MaxExtendLen == 4

(***************************************************************************)
(* Position: a pair of coordinates compared by exact equality.             *)
(* Positions are written on the decimicro grid of the dataset: the         *)
(* conversion f64::from(i32) / 10_000_000.0 is injective, so two converted *)
(* positions are equal exactly when their grid coordinates are.            *)
(***************************************************************************)
PA == <<3, 2>>
PB == <<2, 3>>
PC == <<0, 3>>
Points == {PA, PB, PC}

Position(x, y) == <<x, y>>

(***************************************************************************)
(* Line: a sequence of at least two positions.                             *)
(***************************************************************************)
Start(line) == line[1]

End(line) == line[Len(line)]

Reverse(s) == [i \in 1..Len(s) |-> s[Len(s) + 1 - i]]

\* Result<Line>: Ok(line) or Err(message)
Ok(line) == [ok |-> TRUE, err |-> "", line |-> line]

Err(msg) == [ok |-> FALSE, err |-> msg, line |-> <<>>]

NonContinuous == "Linestrings do not form a continuous path"

NoLinestrings == "no linestrings"

NoMatching == "No more matching linestrings found"

Unclosed == "Ends of the linestrings don't form a ring"

\* Variant of Line::extend without the reversed branch.
ExtendForwardOnly(self, tail) ==
    IF Start(tail) = End(self)
    THEN Ok(self \o Tail(tail))
    ELSE Err(NonContinuous)

\* Variant of Line::extend that keeps the shared position of the tail.
ExtendKeepShared(self, tail) ==
    IF Start(tail) = End(self)
    THEN Ok(self \o tail)
    ELSE IF End(tail) = End(self)
         THEN Ok(self \o Reverse(tail))
         ELSE Err(NonContinuous)

\* Variant of Line::extend whose second branch appends the tail in its
\* stored order (without .rev()).
ExtendUnflipped(self, tail) ==
    IF Start(tail) = End(self)
    THEN Ok(self \o Tail(tail))
    ELSE IF End(tail) = End(self)
         THEN Ok(self \o SubSeq(tail, 1, Len(tail) - 1))
         ELSE Err(NonContinuous)

\* Variant of Line::extend that tests the end of the tail before its start.
ExtendEndFirst(self, tail) ==
    IF End(tail) = End(self)
    THEN Ok(self \o Tail(Reverse(tail)))
    ELSE IF Start(tail) = End(self)
         THEN Ok(self \o Tail(tail))
         ELSE Err(NonContinuous)

\* Line::extend(&mut self, tail): the value of self afterwards, or the error
Extend(self, tail) ==
    IF Start(tail) = End(self)
    THEN Ok(self \o Tail(tail))
    ELSE IF End(tail) = End(self)
         THEN Ok(self \o Tail(Reverse(tail)))
         ELSE Err(NonContinuous)

\* TryFrom<Vec<Position>> for Line
LineTryFrom(value) ==
    IF Len(value) < 2
    THEN Err("cannot construct line with less than two points")
    ELSE Ok(value)

(***************************************************************************)
(* MultiMap<K, V>: HashMap<K, BTreeSet<V>>, a function from the keys that  *)
(* were ever inserted to the set of values live under the key.             *)
(***************************************************************************)
MultiMapDefault == [k \in {} |-> {}]

None == [some |-> FALSE, v |-> 0]

Some(x) == [some |-> TRUE, v |-> x]

\* Variant of is_empty that only asks whether the map has no key.
IsEmptyNoKey(m) == DOMAIN m = {}

IsEmpty(m) == DOMAIN m = {} \/ \A k \in DOMAIN m : m[k] = {}

\* Variant of insert that removes a value the bucket already holds.
InsertToggle(m, key, value) ==
    [k \in DOMAIN m \cup {key} |->
        IF k = key
        THEN IF k \in DOMAIN m /\ value \in m[k]
             THEN m[k] \ {value}
             ELSE (IF k \in DOMAIN m THEN m[k] ELSE {}) \cup {value}
        ELSE m[k]]

\* insert: self.m.entry(key).or_default().insert(value)
Insert(m, key, value) ==
    [k \in DOMAIN m \cup {key} |->
        IF k = key
        THEN (IF k \in DOMAIN m THEN m[k] ELSE {}) \cup {value}
        ELSE m[k]]

\* Variant of get that takes the last element of the BTreeSet.
GetLast(m, key) ==
    IF key \in DOMAIN m /\ m[key] # {}
    THEN Some(CHOOSE x \in m[key] : \A y \in m[key] : x >= y)
    ELSE None

\* Variant of get that looks into every bucket instead of the one under key.
GetAnyBucket(m, key) ==
    LET all == UNION {m[k] : k \in DOMAIN m}
    IN  IF all # {}
        THEN Some(CHOOSE x \in all : \A y \in all : x <= y)
        ELSE None

\* the first element of the BTreeSet under key: its smallest value
Get(m, key) ==
    IF key \in DOMAIN m /\ m[key] # {}
    THEN Some(CHOOSE x \in m[key] : \A y \in m[key] : x <= y)
    ELSE None

\* Variant of consume_one that removes the value from the queried bucket only.
ConsumeOneQueriedBucket(m, key) ==
    LET x == Get(m, key)
    IN  IF ~x.some
        THEN [ret |-> None, m |-> m]
        ELSE [ret |-> x, m |-> [m EXCEPT ![key] = m[key] \ {x.v}]]

\* consume_one: the returned Option and the map afterwards
ConsumeOne(m, key) ==
    LET x == Get(m, key)
    IN  IF ~x.some
        THEN [ret |-> None, m |-> m]
        ELSE [ret |-> x, m |-> [k \in DOMAIN m |-> m[k] \ {x.v}]]

(***************************************************************************)
(* The same operations with the iteration order of the HashMap explicit:   *)
(* values() and values_mut() visit the buckets in an order the HashMap     *)
(* chooses, here a sequence `order` that lists every key of the map once.  *)
(***************************************************************************)
IterationOrders(m) ==
    {f \in [1..Cardinality(DOMAIN m) -> DOMAIN m] :
        \A i, j \in 1..Cardinality(DOMAIN m) : f[i] = f[j] => i = j}

\* self.m.values().all(BTreeSet::is_empty), from the i-th bucket visited on;
\* all() stops at the first bucket that is not empty
RECURSIVE AllEmptyFrom(_, _, _)
AllEmptyFrom(m, order, i) ==
    IF i > Len(order)
    THEN TRUE
    ELSE IF m[order[i]] = {} THEN AllEmptyFrom(m, order, i + 1) ELSE FALSE

IsEmptyIn(m, order) == DOMAIN m = {} \/ AllEmptyFrom(m, order, 1)

\* Variant of the removal loop that stops at the first bucket that held x.
RECURSIVE RemoveFirstFrom(_, _, _, _)
RemoveFirstFrom(m, order, i, x) ==
    IF i > Len(order)
    THEN m
    ELSE IF x \in m[order[i]]
         THEN [m EXCEPT ![order[i]] = m[order[i]] \ {x}]
         ELSE RemoveFirstFrom(m, order, i + 1, x)

\* for xs in self.m.values_mut() { xs.remove(&x); }, from the i-th bucket on
RECURSIVE RemoveFrom(_, _, _, _)
RemoveFrom(m, order, i, x) ==
    IF i > Len(order)
    THEN m
    ELSE RemoveFrom([m EXCEPT ![order[i]] = m[order[i]] \ {x}], order, i + 1, x)

ConsumeOneIn(m, key, order) ==
    LET x == Get(m, key)
    IN  IF ~x.some
        THEN [ret |-> None, m |-> m]
        ELSE [ret |-> x, m |-> RemoveFrom(m, order, 1, x.v)]

(***************************************************************************)
(* create_continuous_linering.  Segment ids are the 0-based indices of     *)
(* the slice: id i is linestrings[i + 1] of the TLA+ sequence.             *)
(***************************************************************************)
At(linestrings, i) == linestrings[i + 1]

\* Variant of the index loop that registers a segment under its start only.
RECURSIVE IndexStartsFrom(_, _, _)
IndexStartsFrom(m, linestrings, i) ==
    IF i >= Len(linestrings)
    THEN m
    ELSE LET start == Position(Start(At(linestrings, i))[1], Start(At(linestrings, i))[2])
         IN  IndexStartsFrom(Insert(m, start, i), linestrings, i + 1)

\* the for loop over linestrings.iter().enumerate().skip(1), from id i on
RECURSIVE IndexFrom(_, _, _)
IndexFrom(m, linestrings, i) ==
    IF i >= Len(linestrings)
    THEN m
    ELSE LET start == Position(Start(At(linestrings, i))[1], Start(At(linestrings, i))[2])
             end == Position(End(At(linestrings, i))[1], End(At(linestrings, i))[2])
         IN  IndexFrom(Insert(Insert(m, start, i), end, i), linestrings, i + 1)

\* Variant of the index build without skip(1): the seed is registered too.
BuildEndpointsWithSeed(linestrings) == IndexFrom(MultiMapDefault, linestrings, 0)

BuildEndpoints(linestrings) == IndexFrom(MultiMapDefault, linestrings, 1)

first_index == 0

\* Variant of the loop body that unwraps the Option of consume_one.
LoopBodyUnwrap(linestrings, m, line) ==
    LET c == ConsumeOne(m, End(line))
    IN  IF ~c.ret.some
        THEN [bail |-> TRUE, err |-> "panic: unwrap on None", m |-> c.m,
              line |-> line, next_index |-> None]
        ELSE LET e == Extend(line, At(linestrings, c.ret.v))
             IN  [bail |-> ~e.ok, err |-> e.err, m |-> c.m,
                  line |-> IF e.ok THEN e.line ELSE line, next_index |-> c.ret]

\* One iteration of `while !endpoints.is_empty()`: the index and the ring
\* afterwards, the id consumed, and the error when the iteration bails.
LoopBody(linestrings, m, line) ==
    LET c == ConsumeOne(m, End(line))
    IN  IF ~c.ret.some
        THEN [bail |-> TRUE, err |-> NoMatching, m |-> c.m, line |-> line,
              next_index |-> None]
        ELSE IF c.ret.v >= Len(linestrings)
             THEN [bail |-> TRUE, err |-> "panic: index out of bounds", m |-> c.m,
                   line |-> line, next_index |-> c.ret]
             ELSE LET e == Extend(line, At(linestrings, c.ret.v))
                  IN  IF e.ok
                      THEN [bail |-> FALSE, err |-> "", m |-> c.m, line |-> e.line,
                            next_index |-> c.ret]
                      ELSE [bail |-> TRUE, err |-> e.err, m |-> c.m, line |-> line,
                            next_index |-> c.ret]

\* Variant of the final check that returns the working ring unchecked.
CheckClosedSkipped(line) == Ok(line)

\* the check after the loop
CheckClosed(line) ==
    IF Start(line) # End(line) THEN Err(Unclosed) ELSE Ok(line)

\* Variant of the loop condition that also leaves the loop as soon as the
\* working ring is closed.
LoopContinuesUnclosed(m, line) == ~IsEmpty(m) /\ Start(line) # End(line)

\* the condition of `while !endpoints.is_empty()`; the working ring is not
\* looked at
LoopContinues(m, line) == ~IsEmpty(m)

\* create_continuous_linering from the head of the while loop on
RECURSIVE WhileLoop(_, _, _)
WhileLoop(ls, m, line) ==
    IF ~LoopContinues(m, line)
    THEN CheckClosed(line)
    ELSE LET b == LoopBody(ls, m, line)
         IN  IF b.bail THEN Err(b.err) ELSE WhileLoop(ls, b.m, b.line)

\* Variant of create_continuous_linering without the early return on an
\* empty slice: linestrings[first_index] is then out of bounds.
CreateContinuousLineringUnguarded(ls) ==
    IF Len(ls) = 0
    THEN Err("panic: index out of bounds")
    ELSE WhileLoop(ls, BuildEndpoints(ls), At(ls, first_index))

\* create_continuous_linering(linestrings) as a function of its argument
CreateContinuousLinering(ls) ==
    IF Len(ls) = 0
    THEN Err(NoLinestrings)
    ELSE WhileLoop(ls, BuildEndpoints(ls), At(ls, first_index))

(***************************************************************************)
(* create_continuous_linering of src/src/geojson.rs: the endpoint index is *)
(* a HashMap<FloatTuple, Vec<usize>>, a function from the keys to the      *)
(* sequence of ids pushed under the key, with a set of used ids next to    *)
(* it.  FloatTuple is compared with the == of f64, which on the positions  *)
(* of the dataset (no NaN, no negative zero) is equality of the grid       *)
(* coordinates.  The result also carries the ids spliced, in order.        *)
(***************************************************************************)
GeojsonOk(line, order) == [ok |-> TRUE, err |-> "", line |-> line, spliced |-> order]

GeojsonErr(msg, order) == [ok |-> FALSE, err |-> msg, line |-> <<>>, spliced |-> order]

\* endpoints.entry(key).or_default().push(i)
EntryPush(m, key, i) ==
    [k \in DOMAIN m \cup {key} |->
        IF k = key
        THEN Append(IF k \in DOMAIN m THEN m[k] ELSE <<>>, i)
        ELSE m[k]]

\* the for loop over linestrings.iter().enumerate(), from id i on
RECURSIVE GeojsonIndexFrom(_, _, _)
GeojsonIndexFrom(m, linestrings, i) ==
    IF i >= Len(linestrings)
    THEN m
    ELSE LET start == Start(At(linestrings, i))
             end == End(At(linestrings, i))
             m1 == EntryPush(m, start, i)
         IN  GeojsonIndexFrom(IF start # end THEN EntryPush(m1, end, i) ELSE m1,
                              linestrings, i + 1)

\* Variant of the search in the bucket that takes the last unused id.
RECURSIVE FindUnusedLast(_, _, _)
FindUnusedLast(indices, used_linestrings, j) ==
    IF j > Len(indices)
    THEN None
    ELSE LET k == Len(indices) + 1 - j
         IN  IF indices[k] \notin used_linestrings
             THEN Some(indices[k])
             ELSE FindUnusedLast(indices, used_linestrings, j + 1)

\* indices.iter().find(|i| !used_linestrings.contains(i)), from the j-th on
RECURSIVE FindUnused(_, _, _)
FindUnused(indices, used_linestrings, j) ==
    IF j > Len(indices)
    THEN None
    ELSE IF indices[j] \notin used_linestrings
         THEN Some(indices[j])
         ELSE FindUnused(indices, used_linestrings, j + 1)

\* the function from the head of `while used_linestrings.len() < linestrings.len()` on
RECURSIVE GeojsonWhileLoop(_, _, _, _, _)
GeojsonWhileLoop(ls, m, line, used_linestrings, order) ==
    IF ~(Cardinality(used_linestrings) < Len(ls))
    THEN IF line[1] # line[Len(line)]
         THEN GeojsonErr(Unclosed, order)
         ELSE GeojsonOk(line, order)
    ELSE LET current_end_key == line[Len(line)]
         IN  IF current_end_key \notin DOMAIN m
             THEN GeojsonErr("No more matching linestrings found", order)
             ELSE LET found == FindUnused(m[current_end_key], used_linestrings, 1)
                  IN  IF ~found.some
                      THEN GeojsonErr("No matching linestring found", order)
                      ELSE LET next_index == found.v
                               next_linestring == At(ls, next_index)
                               n == Len(next_linestring)
                           IN  IF current_end_key = next_linestring[1]
                               THEN GeojsonWhileLoop(ls, m,
                                       line \o SubSeq(next_linestring, 2, n),
                                       used_linestrings \cup {next_index},
                                       Append(order, next_index))
                               ELSE IF current_end_key = next_linestring[n]
                                    THEN GeojsonWhileLoop(ls, m,
                                            line \o Reverse(SubSeq(next_linestring, 1, n - 1)),
                                            used_linestrings \cup {next_index},
                                            Append(order, next_index))
                                    ELSE GeojsonErr(NonContinuous, order)

\* geojson.rs: create_continuous_linering(linestrings)
GeojsonCreateContinuousLinering(ls) ==
    IF Len(ls) = 0 \/ \E i \in 1..Len(ls) : Len(ls[i]) < 2
    THEN GeojsonErr("No linestrings or a linestring has less than 2 positions", <<>>)
    ELSE GeojsonWhileLoop(ls, GeojsonIndexFrom(MultiMapDefault, ls, 0),
                          At(ls, first_index), {first_index}, <<>>)

(***************************************************************************)
(* f64 arithmetic.  The unit of the model is one decimicro degree, so the  *)
(* values are integers; a result that needs more than MantissaBits         *)
(* significant bits is rounded to nearest, ties to even.                   *)
(***************************************************************************)
Abs(n) == IF n < 0 THEN 0 - n ELSE n

RECURSIVE Ulp(_, _)
\* the spacing of the representable values around a (q a power of two)
Ulp(a, q) == IF a < q * (2 ^ MantissaBits) THEN q ELSE Ulp(a, 2 * q)

Round(n) ==
    LET a == Abs(n)
        q == Ulp(a, 1)
        lo == (a \div q) * q
        rem == a - lo
        r == IF 2 * rem < q THEN lo
             ELSE IF 2 * rem > q THEN lo + q
             ELSE IF (lo \div q) % 2 = 0 THEN lo ELSE lo + q
    IN  IF n < 0 THEN 0 - r ELSE r

FAdd(a, b) == Round(a + b)

FSub(a, b) == Round(a - b)

FMul(a, b) == Round(a * b)

\* the partial sums of sum::<f64>(), from pair i on
RECURSIVE ShoelaceFrom(_, _, _)
ShoelaceFrom(ring, i, acc) ==
    IF i > Len(ring)
    THEN acc
    ELSE LET c == ring[i]
             n == ring[(i % Len(ring)) + 1]
         IN  ShoelaceFrom(ring, i + 1,
                          FAdd(acc, FMul(FSub(n[1], c[1]), FAdd(n[2], c[2]))))

\* Variant of is_clockwise that compares with >= 0.0.
IsClockwiseOrZero(ring) == ShoelaceFrom(ring, 1, 0) >= 0

\* is_clockwise(ring)
IsClockwise(ring) == ShoelaceFrom(ring, 1, 0) > 0

(***************************************************************************)
(* The dataset (all_objs): nodes 1, 2 and 3 are present, node 4 is not.  A *)
(* member of a relation is a role and the object the reference resolves    *)
(* to: nothing (absent from the dataset) or a way, a list of node ids.     *)
(***************************************************************************)
Nodes ==
    (1 :> [decimicro_lon |-> PA[1], decimicro_lat |-> PA[2]]) @@
    (2 :> [decimicro_lon |-> PB[1], decimicro_lat |-> PB[2]]) @@
    (3 :> [decimicro_lon |-> PC[1], decimicro_lat |-> PC[2]])

NodeIds == DOMAIN Nodes \cup {4}

Roles == {"outer", "inner"}

AbsentMember == [kind |-> "absent", nodes |-> <<>>]

WayMember(nodes) == [kind |-> "way", nodes |-> nodes]

\* Tags of a relation that filter::by_target accepts.
GoodTags ==
    ("name" :> "Berlin") @@ ("type" :> "boundary") @@
    ("boundary" :> "administrative") @@ ("admin_level" :> "4") @@
    ("de:regionalschluessel" :> "110000000000")

Relation(refs) == [kind |-> "relation", tags |-> GoodTags, refs |-> refs]

\* f64::from(v) / 10_000_000.0, in the unit of the model
ToDegrees(v) == Round(v)

\* the closure to_coords of as_polygon
ToCoords(nodes) ==
    IF \A i \in 1..Len(nodes) : nodes[i] \in DOMAIN Nodes
    THEN Some([i \in 1..Len(nodes) |->
                 Position(ToDegrees(Nodes[nodes[i]].decimicro_lon),
                          ToDegrees(Nodes[nodes[i]].decimicro_lat))])
    ELSE None

\* Variant of the first filter_map closure that does not look at the role.
OuterCoordsAnyRole(child) ==
    IF child.member.kind = "way" THEN ToCoords(child.member.nodes) ELSE None

\* the first filter_map closure of as_polygon
OuterCoords(child) ==
    IF child.role = "outer"
    THEN IF child.member.kind = "way" THEN ToCoords(child.member.nodes) ELSE None
    ELSE None

\* refs.iter().filter_map(..).filter_map(Line::try_from(xs).ok()).collect(),
\* from member i on
RECURSIVE CollectLinestrings(_, _)
CollectLinestrings(refs, i) ==
    IF i > Len(refs)
    THEN <<>>
    ELSE LET xs == OuterCoords(refs[i])
         IN  IF xs.some /\ LineTryFrom(xs.v).ok
             THEN <<LineTryFrom(xs.v).line>> \o CollectLinestrings(refs, i + 1)
             ELSE CollectLinestrings(refs, i + 1)

\* `if is_clockwise(&linering) { linering.0.reverse(); }`: the ring afterwards
RespectRightHandRule(linering) ==
    IF IsClockwise(linering) THEN Reverse(linering) ELSE linering

\* Result<geojson::Value>: Polygon(rings) or the error
OkPolygon(rings) == [ok |-> TRUE, err |-> "", rings |-> rings]

ErrPolygon(msg) == [ok |-> FALSE, err |-> msg, rings |-> <<>>]

\* as_polygon(obj, all_objs)
AsPolygon(obj) ==
    IF obj.kind # "relation"
    THEN ErrPolygon("'relation' is missing")
    ELSE LET r == CreateContinuousLinering(CollectLinestrings(obj.refs, 1))
         IN  IF ~r.ok
             THEN ErrPolygon(r.err)
             ELSE OkPolygon(<<RespectRightHandRule(r.line)>>)

(***************************************************************************)
(* filter::by_target, to_feature and the loop of write.                    *)
(***************************************************************************)
TagsGet(tags, key) == IF key \in DOMAIN tags THEN Some(tags[key]) ELSE None

\* filter::by_target(obj)
ByTarget(obj) ==
    /\ obj.kind = "relation"
    /\ "name" \in DOMAIN obj.tags
    /\ TagsGet(obj.tags, "type").some /\ obj.tags["type"] = "boundary"
    /\ TagsGet(obj.tags, "boundary").some /\ obj.tags["boundary"] = "administrative"
    /\ "de:regionalschluessel" \in DOMAIN obj.tags
    /\ TagsGet(obj.tags, "admin_level").some
    /\ obj.tags["admin_level"] \in {"2", "4", "6", "7", "8"}

\* admin_level.parse::<u8>() on the strings of the model
ParseU8(str) ==
    CASE str = "2" -> Some(2)
      [] str = "3" -> Some(3)
      [] str = "4" -> Some(4)
      [] str = "6" -> Some(6)
      [] str = "7" -> Some(7)
      [] str = "8" -> Some(8)
      [] OTHER -> None

\* Result<geojson::GeoJson>
OkFeature(name, admin_level, ars, geometry) ==
    [ok |-> TRUE, err |-> "", name |-> name, adminLevel |-> admin_level,
     ars |-> ars, geometry |-> geometry]

ErrFeature(msg) ==
    [ok |-> FALSE, err |-> msg, name |-> <<>>, adminLevel |-> 0, ars |-> "",
     geometry |-> <<>>]

\* to_feature(obj, all_objs)
ToFeature(obj) ==
    LET tags == obj.tags
    IN  IF ~TagsGet(tags, "name").some THEN ErrFeature("'name' is missing")
        ELSE IF ~TagsGet(tags, "admin_level").some
             THEN ErrFeature("'admin_level' is missing")
        ELSE IF ~TagsGet(tags, "de:regionalschluessel").some
             THEN ErrFeature("'de:regionalschluessel' is missing")
        ELSE IF ~ParseU8(tags["admin_level"]).some
             THEN ErrFeature("admin_level: ParseIntError")
        ELSE LET name == IF TagsGet(tags, "name:prefix").some
                         THEN <<tags["name:prefix"], tags["name"]>>
                         ELSE <<tags["name"]>>
                 g == AsPolygon(obj)
             IN  IF ~g.ok
                 THEN ErrFeature(g.err)
                 ELSE OkFeature(name, ParseU8(tags["admin_level"]).v,
                                tags["de:regionalschluessel"], g.rings)

\* Variant of the match in write that returns the error of to_feature.
WriteMatchPropagate(f, io_ok, w) ==
    IF f.ok
    THEN IF io_ok
         THEN [w EXCEPT !.out = w.out + 1]
         ELSE [w EXCEPT !.wret = "Err", !.io_failed = TRUE]
    ELSE [w EXCEPT !.wret = "Err"]

\* The match on to_feature's result in the loop of write: f is the result,
\* io_ok tells whether writeln! succeeds, w is the state of write before.
WriteMatch(f, io_ok, w) ==
    IF f.ok
    THEN IF io_ok
         THEN [w EXCEPT !.out = w.out + 1]
         ELSE [w EXCEPT !.wret = "Err", !.io_failed = TRUE]
    ELSE [w EXCEPT !.logged = w.logged + 1]

VARIABLES
    pc,               \* position in create_continuous_linering
    linestrings,      \* its argument
    endpoints,        \* the endpoint index
    continuous_line,  \* the working ring
    result,           \* the value returned
    spliced,          \* history: the ids returned by consume_one, in order
    queries,          \* history: the number of consume_one calls on the index
    mm,               \* a MultiMap used on its own
    mm_call,          \* the last call on mm: its arguments, its return value
                      \* and the map before it
    live,             \* history: the values inserted and not consumed since
    apc,              \* position of the caller of as_polygon
    refs,             \* the members of the relation handed to as_polygon
    polygon,          \* the value as_polygon returned
    feature,          \* the value of the last call of to_feature in write
    seen,             \* the number of objects the loop of write has taken
    qualifying,       \* how many of them filter::by_target accepted
    write,            \* out: feature lines written; logged: errors reported;
                      \* wret: "running" or what write returned;
                      \* io_failed: a writeln! has failed
    opc,              \* position of the caller of the orientation normalizer
    ring,             \* the ring handed to it
    normalized,       \* the ring after one pass of the normalizer
    renormalized,     \* the ring after a second pass, on the first one's output
    ext_pc,           \* position of the caller of Line::extend
    ext_self,         \* the Line extend is called on, as it is before the call
    ext_tail,         \* its argument
    ext_ret,          \* what extend returned
    ext_after         \* the Line extend was called on, after the call

ringVars == <<pc, linestrings, endpoints, continuous_line, result, spliced, queries>>

mmVars == <<mm, mm_call, live>>

areaVars == <<apc, refs, polygon>>

writeVars == <<feature, seen, qualifying, write>>

orientVars == <<opc, ring, normalized, renormalized>>

extendVars == <<ext_pc, ext_self, ext_tail, ext_ret, ext_after>>

vars == <<ringVars, mmVars, areaVars, writeVars, orientVars, extendVars>>

Pending == Err("pending")

TotalLen(ls) == IF Len(ls) = 0 THEN 0 ELSE
    LET RECURSIVE Sum(_)
        Sum(i) == IF i = 0 THEN 0 ELSE Len(ls[i]) + Sum(i - 1)
    IN  Sum(Len(ls))

NoCall == [op |-> "default", key |-> 0, value |-> 0, ret |-> None,
           before |-> MultiMapDefault]

RingIdle ==
    /\ pc = "collect"
    /\ linestrings = <<>>
    /\ endpoints = MultiMapDefault
    /\ continuous_line = <<>>
    /\ result = Pending
    /\ spliced = <<>>
    /\ queries = 0

MMIdle ==
    /\ mm = MultiMapDefault
    /\ mm_call = NoCall
    /\ live = {}

AreaIdle ==
    /\ apc = "members"
    /\ refs = <<>>
    /\ polygon = ErrPolygon("pending")

WriteIdle ==
    /\ feature = ErrFeature("pending")
    /\ seen = 0
    /\ qualifying = 0
    /\ write = [out |-> 0, logged |-> 0, wret |-> "running", io_failed |-> FALSE]

OrientIdle ==
    /\ opc = "build"
    /\ ring = <<>>
    /\ normalized = <<>>
    /\ renormalized = <<>>

ExtendIdle ==
    /\ ext_pc = "build"
    /\ ext_self = <<>>
    /\ ext_tail = <<>>
    /\ ext_ret = Pending
    /\ ext_after = <<>>

(***************************************************************************)
(* Spec: one call of create_continuous_linering, iteration by iteration,   *)
(* on a list of Lines collected by the caller.                             *)
(***************************************************************************)
Init == RingIdle /\ MMIdle /\ AreaIdle /\ WriteIdle /\ OrientIdle /\ ExtendIdle

\* The caller collects one more Line (at least two positions).
Push ==
    /\ pc = "collect"
    /\ \E n \in 2..(MaxPositions - TotalLen(linestrings)) :
         \E l \in [1..n -> Points] :
            linestrings' = Append(linestrings, l)
    /\ UNCHANGED <<pc, endpoints, continuous_line, result, spliced, queries>>
    /\ UNCHANGED <<mmVars, areaVars, writeVars, orientVars, extendVars>>

\* Entry of create_continuous_linering up to the head of the while loop.
Enter ==
    /\ pc = "collect"
    /\ IF Len(linestrings) = 0
       THEN /\ result' = Err(NoLinestrings)
            /\ pc' = "done"
            /\ UNCHANGED <<endpoints, continuous_line>>
       ELSE /\ endpoints' = BuildEndpoints(linestrings)
            /\ continuous_line' = At(linestrings, first_index)
            /\ pc' = "loop"
            /\ UNCHANGED result
    /\ UNCHANGED <<linestrings, spliced, queries>>
    /\ UNCHANGED <<mmVars, areaVars, writeVars, orientVars, extendVars>>

\* One iteration of the while loop.
Extending ==
    /\ pc = "loop"
    /\ LoopContinues(endpoints, continuous_line)
    /\ LET b == LoopBody(linestrings, endpoints, continuous_line)
       IN  /\ endpoints' = b.m
           /\ continuous_line' = b.line
           /\ queries' = queries + 1
           /\ spliced' = IF b.next_index.some
                         THEN Append(spliced, b.next_index.v)
                         ELSE spliced
           /\ IF b.bail
              THEN pc' = "done" /\ result' = Err(b.err)
              ELSE pc' = "loop" /\ UNCHANGED result
    /\ UNCHANGED linestrings
    /\ UNCHANGED <<mmVars, areaVars, writeVars, orientVars, extendVars>>

\* The loop has ended: the closure check and the return.
Closed ==
    /\ pc = "loop"
    /\ ~LoopContinues(endpoints, continuous_line)
    /\ result' = CheckClosed(continuous_line)
    /\ pc' = "done"
    /\ UNCHANGED <<linestrings, endpoints, continuous_line, spliced, queries>>
    /\ UNCHANGED <<mmVars, areaVars, writeVars, orientVars, extendVars>>

Next == Push \/ Enter \/ Extending \/ Closed

Spec == Init /\ [][Next]_vars

\* The caller collects one more Line, within MaxFairPositions.
PushFair ==
    /\ pc = "collect"
    /\ \E n \in 2..(MaxFairPositions - TotalLen(linestrings)) :
         \E l \in [1..n -> Points] :
            linestrings' = Append(linestrings, l)
    /\ UNCHANGED <<pc, endpoints, continuous_line, result, spliced, queries>>
    /\ UNCHANGED <<mmVars, areaVars, writeVars, orientVars, extendVars>>

NextFair == PushFair \/ Enter \/ Extending \/ Closed

\* The call runs on a single thread with no suspension point: once in the
\* loop, the next iteration, or the check after the loop, is executed.
SpecFair ==
    Init /\ [][NextFair]_vars /\ WF_vars(Extending) /\ WF_vars(Closed)

(***************************************************************************)
(* SpecMM: a MultiMap on its own, under any sequence of insert and         *)
(* consume_one calls (the calls of test::multi_map, from bounded sets).    *)
(***************************************************************************)
MMKeys == 1..MaxKeys

MMValues == 1..MaxValues

InitMM == RingIdle /\ MMIdle /\ AreaIdle /\ WriteIdle /\ OrientIdle /\ ExtendIdle

MMInsert ==
    /\ \E key \in MMKeys, value \in MMValues :
          /\ mm' = Insert(mm, key, value)
          /\ mm_call' = [op |-> "insert", key |-> key, value |-> value,
                         ret |-> None, before |-> mm]
          /\ live' = live \cup {value}
    /\ UNCHANGED <<ringVars, areaVars, writeVars, orientVars, extendVars>>

MMConsumeOne ==
    /\ \E key \in MMKeys :
          LET c == ConsumeOne(mm, key)
          IN  /\ mm' = c.m
              /\ mm_call' = [op |-> "consume_one", key |-> key, value |-> 0,
                             ret |-> c.ret, before |-> mm]
              /\ live' = IF c.ret.some THEN live \ {c.ret.v} ELSE live
    /\ UNCHANGED <<ringVars, areaVars, writeVars, orientVars, extendVars>>

NextMM == MMInsert \/ MMConsumeOne

SpecMM == InitMM /\ [][NextMM]_vars

(***************************************************************************)
(* SpecArea: as_polygon on one relation whose members are drawn from the   *)
(* roles, the absent member and the ways over NodeIds.                     *)
(***************************************************************************)
RECURSIVE AreaSize(_, _)
AreaSize(rs, i) ==
    IF i > Len(rs) THEN 0 ELSE 1 + Len(rs[i].member.nodes) + AreaSize(rs, i + 1)

InitArea == RingIdle /\ MMIdle /\ AreaIdle /\ WriteIdle /\ OrientIdle /\ ExtendIdle

\* The relation has one more member.
AddMember ==
    /\ apc = "members"
    /\ \E role \in Roles :
          \/ /\ AreaSize(refs, 1) + 1 <= MaxAreaSize
             /\ refs' = Append(refs, [role |-> role, member |-> AbsentMember])
          \/ \E n \in 0..(MaxAreaSize - AreaSize(refs, 1) - 1) :
                \E nodes \in [1..n -> NodeIds] :
                   refs' = Append(refs, [role |-> role, member |-> WayMember(nodes)])
    /\ UNCHANGED <<apc, polygon>>
    /\ UNCHANGED <<ringVars, mmVars, writeVars, orientVars, extendVars>>

\* as_polygon is called on the relation and returns.
CallAsPolygon ==
    /\ apc = "members"
    /\ polygon' = AsPolygon(Relation(refs))
    /\ apc' = "returned"
    /\ UNCHANGED refs
    /\ UNCHANGED <<ringVars, mmVars, writeVars, orientVars, extendVars>>

NextArea == AddMember \/ CallAsPolygon

SpecArea == InitArea /\ [][NextArea]_vars

(***************************************************************************)
(* SpecWrite: write on a dataset whose objects are drawn, one per          *)
(* iteration, from relations and ways with the tags and members below.     *)
(***************************************************************************)
Members(budget) ==
    IF budget < 1 THEN {} ELSE
    {[role |-> role, member |-> AbsentMember] : role \in Roles} \cup
    UNION {{[role |-> role, member |-> WayMember(nodes)] :
               role \in Roles, nodes \in [1..n -> NodeIds]} : n \in 0..(budget - 1)}

\* the member lists of size at most budget
RECURSIVE MemberLists(_)
MemberLists(budget) ==
    {<<>>} \cup
    UNION {{<<child>> \o rest :
               rest \in MemberLists(budget - 1 - Len(child.member.nodes))} :
           child \in Members(budget)}

TagSets ==
    {GoodTags}
    \cup {[k \in DOMAIN GoodTags \ {gone} |-> GoodTags[k]] : gone \in DOMAIN GoodTags}
    \cup {[GoodTags EXCEPT !["admin_level"] = v] : v \in {"3", "8", "x", "256"}}
    \cup {("name:prefix" :> "Stadt") @@ GoodTags}

WriteObjs ==
    {[kind |-> kind, tags |-> tags, refs |-> rs] :
        kind \in {"relation", "way"}, tags \in TagSets,
        rs \in MemberLists(MaxWriteAreaSize)}

\* objs.values().filter(|obj| filter::by_target(obj)) and the objects it drops
AcceptedObjs == {obj \in WriteObjs : ByTarget(obj)}

RejectedObjs == WriteObjs \ AcceptedObjs

InitWrite == RingIdle /\ MMIdle /\ AreaIdle /\ WriteIdle /\ OrientIdle /\ ExtendIdle

\* The loop takes an object that filter::by_target rejects.
WriteFiltered ==
    /\ write.wret = "running"
    /\ seen < MaxBatch
    /\ RejectedObjs # {}
    /\ seen' = seen + 1
    /\ UNCHANGED <<feature, qualifying, write>>
    /\ UNCHANGED <<ringVars, mmVars, areaVars, orientVars, extendVars>>

\* One iteration of the loop on a relation that filter::by_target accepts.
WriteRelation ==
    /\ write.wret = "running"
    /\ seen < MaxBatch
    /\ \E obj \in AcceptedObjs :
          /\ feature' = ToFeature(obj)
          /\ \E io_ok \in BOOLEAN : write' = WriteMatch(feature', io_ok, write)
    /\ seen' = seen + 1
    /\ qualifying' = qualifying + 1
    /\ UNCHANGED <<ringVars, mmVars, areaVars, orientVars, extendVars>>

\* The iterator is exhausted: write returns Ok(()).
WriteReturn ==
    /\ write.wret = "running"
    /\ write' = [write EXCEPT !.wret = "Ok"]
    /\ UNCHANGED <<feature, seen, qualifying>>
    /\ UNCHANGED <<ringVars, mmVars, areaVars, orientVars, extendVars>>

NextWrite == WriteFiltered \/ WriteRelation \/ WriteReturn

SpecWrite == InitWrite /\ [][NextWrite]_vars

(***************************************************************************)
(* SpecOrient: the orientation normalizer of as_polygon on a ring of       *)
(* positions drawn from Points, applied once and then again on its output. *)
(***************************************************************************)
InitOrient == RingIdle /\ MMIdle /\ AreaIdle /\ WriteIdle /\ OrientIdle /\ ExtendIdle

\* The ring has one more position.
OrientPush ==
    /\ opc = "build"
    /\ Len(ring) < MaxRingLen
    /\ \E p \in Points : ring' = Append(ring, p)
    /\ UNCHANGED <<opc, normalized, renormalized>>
    /\ UNCHANGED <<ringVars, mmVars, areaVars, writeVars, extendVars>>

\* The normalizer runs on the ring (a Line: at least two positions).
Normalize ==
    /\ opc = "build"
    /\ LineTryFrom(ring).ok
    /\ normalized' = RespectRightHandRule(ring)
    /\ opc' = "normalized"
    /\ UNCHANGED <<ring, renormalized>>
    /\ UNCHANGED <<ringVars, mmVars, areaVars, writeVars, extendVars>>

\* The normalizer runs again, on its own output.
Renormalize ==
    /\ opc = "normalized"
    /\ renormalized' = RespectRightHandRule(normalized)
    /\ opc' = "renormalized"
    /\ UNCHANGED <<ring, normalized>>
    /\ UNCHANGED <<ringVars, mmVars, areaVars, writeVars, extendVars>>

NextOrient == OrientPush \/ Normalize \/ Renormalize

SpecOrient == InitOrient /\ [][NextOrient]_vars

(***************************************************************************)
(* SpecExtend: one call of Line::extend on two Lines of positions drawn    *)
(* from Points.                                                            *)
(***************************************************************************)
InitExtend == RingIdle /\ MMIdle /\ AreaIdle /\ WriteIdle /\ OrientIdle /\ ExtendIdle

\* The Line extend will be called on has one more position.
ExtendPushSelf ==
    /\ ext_pc = "build"
    /\ ext_tail = <<>>
    /\ Len(ext_self) < MaxExtendLen
    /\ \E p \in Points : ext_self' = Append(ext_self, p)
    /\ UNCHANGED <<ext_pc, ext_tail, ext_ret, ext_after>>
    /\ UNCHANGED <<ringVars, mmVars, areaVars, writeVars, orientVars>>

\* The argument has one more position.
ExtendPushTail ==
    /\ ext_pc = "build"
    /\ LineTryFrom(ext_self).ok
    /\ Len(ext_tail) < MaxExtendLen
    /\ \E p \in Points : ext_tail' = Append(ext_tail, p)
    /\ UNCHANGED <<ext_pc, ext_self, ext_ret, ext_after>>
    /\ UNCHANGED <<ringVars, mmVars, areaVars, writeVars, orientVars>>

\* self.extend(&tail): on an error nothing has been appended to self.
CallExtend ==
    /\ ext_pc = "build"
    /\ LineTryFrom(ext_self).ok
    /\ LineTryFrom(ext_tail).ok
    /\ ext_ret' = Extend(ext_self, ext_tail)
    /\ ext_after' = IF ext_ret'.ok THEN ext_ret'.line ELSE ext_self
    /\ ext_pc' = "returned"
    /\ UNCHANGED <<ext_self, ext_tail>>
    /\ UNCHANGED <<ringVars, mmVars, areaVars, writeVars, orientVars>>

NextExtend == ExtendPushSelf \/ ExtendPushTail \/ CallExtend

SpecExtend == InitExtend /\ [][NextExtend]_vars

(***************************************************************************)
(* Properties of create_continuous_linering (specification Spec).          *)
(***************************************************************************)
Ids(ls) == 0..(Len(ls) - 1)

\* the keys under which value v is registered in map m
KeysOf(m, v) == {k \in DOMAIN m : v \in m[k]}

\* The segments `rem` can be chained, each once, forward or reversed, from
\* position `from` so that the chain ends at position `to`.
RECURSIVE CanChain(_, _, _, _)
CanChain(ls, rem, from, to) ==
    IF rem = {}
    THEN from = to
    ELSE \E i \in rem :
            \/ Start(At(ls, i)) = from /\ CanChain(ls, rem \ {i}, End(At(ls, i)), to)
            \/ End(At(ls, i)) = from /\ CanChain(ls, rem \ {i}, Start(At(ls, i)), to)

\* The segments can be arranged into a single closed ring.
FormsSingleRing(ls) ==
    /\ Len(ls) > 0
    /\ \E i \in Ids(ls) :
          CanChain(ls, Ids(ls) \ {i}, End(At(ls, i)), Start(At(ls, i)))

\* The number of segment ends (starts and ends counted apart) at position p.
EndsAt(ls, p) ==
    Cardinality({i \in Ids(ls) : Start(At(ls, i)) = p})
  + Cardinality({i \in Ids(ls) : End(At(ls, i)) = p})

\* No position is the junction of more than two segment ends.
NoBranching(ls) == \A p \in Points : EndsAt(ls, p) <= 2

\* C1 as stated: every list of segments that can be arranged into a single
\* closed ring is assembled (Ok), whatever the order and the junctions.
C1_AnyRingAssembles ==
    (pc = "done" /\ FormsSingleRing(linestrings)) => result.ok

\* C1 amended: every list of segments that can be arranged into a single
\* closed ring and in which no position is shared by more than two segment
\* ends is assembled (Ok), whatever the order of the segments.
C1_UnbranchedRingAssembles ==
    (pc = "done" /\ FormsSingleRing(linestrings) /\ NoBranching(linestrings))
        => result.ok

C1_Witness ==
    /\ pc = "done"
    /\ Len(linestrings) = 3
    /\ FormsSingleRing(linestrings)
    /\ NoBranching(linestrings)
    /\ spliced = <<2, 1>>
    /\ End(At(linestrings, 2)) = End(At(linestrings, 0))
    /\ result.ok

\* C2: a returned ring has sum of the segments' lengths minus (n - 1)
\* positions, and its first position equals its last.
C2_RingSize ==
    (pc = "done" /\ result.ok) =>
        /\ Len(result.line) = TotalLen(linestrings) - (Len(linestrings) - 1)
        /\ Start(result.line) = End(result.line)

C2_Witness ==
    /\ pc = "done"
    /\ result.ok
    /\ Len(linestrings) = 3
    /\ \E i \in Ids(linestrings) : Len(At(linestrings, i)) = 3
    /\ Len(result.line) = 5

\* C3: no segment is spliced twice, the seed is never spliced again, and on
\* success every segment has been consumed exactly once.
C3_ConsumedOnce ==
    /\ \A i, j \in 1..Len(spliced) : i # j => spliced[i] # spliced[j]
    /\ \A i \in 1..Len(spliced) : spliced[i] # first_index
    /\ (pc = "done" /\ result.ok) =>
          /\ Len(spliced) + 1 = Len(linestrings)
          /\ {spliced[i] : i \in 1..Len(spliced)} \cup {first_index} = Ids(linestrings)

C3_Witness ==
    /\ pc = "done"
    /\ result.ok
    /\ Len(linestrings) = 3
    /\ \E p \in Points : \A i \in Ids(linestrings) :
          p \in {Start(At(linestrings, i)), End(At(linestrings, i))}

\* Segments are still live in the index, none of them at position p.
LiveButNoneAt(p) ==
    /\ \E k \in DOMAIN endpoints : endpoints[k] # {}
    /\ p \notin DOMAIN endpoints \/ endpoints[p] = {}

\* C7: when unconsumed segments remain and none is registered at the ring's
\* end, the call returns the no-matching-segment error and no ring; two
\* segments with no shared endpoint end this way.
C7_NoMatchingSegment ==
    /\ [][(pc = "loop" /\ LiveButNoneAt(End(continuous_line)))
            => (pc' = "done" /\ result' = Err(NoMatching))]_vars
    /\ []((pc = "done" /\ Len(linestrings) = 2
             /\ {Start(linestrings[1]), End(linestrings[1])}
                  \cap {Start(linestrings[2]), End(linestrings[2])} = {})
            => result = Err(NoMatching))

C7_Witness ==
    /\ pc = "done"
    /\ Len(linestrings) = 2
    /\ {Start(linestrings[1]), End(linestrings[1])}
          \cap {Start(linestrings[2]), End(linestrings[2])} = {}
    /\ result = Err(NoMatching)
    /\ spliced = <<>>

\* C8: when every segment has been consumed and the ring's first position
\* differs from its last, the call fails with the unclosed-ring error.
C8_UnclosedRing ==
    (/\ pc = "done"
     /\ Len(linestrings) > 0
     /\ Len(spliced) = Len(linestrings) - 1
     /\ Start(continuous_line) # End(continuous_line))
        => result = Err(Unclosed)

C8_Witness ==
    /\ pc = "done"
    /\ Len(linestrings) = 2
    /\ Len(spliced) = 1
    /\ Start(continuous_line) # End(continuous_line)
    /\ result = Err(Unclosed)

\* C16: the outcome does not depend on the order in which the HashMap of the
\* endpoint index iterates over its buckets: in every iteration of the loop,
\* is_empty and consume_one give the same answer and leave the same index
\* under every iteration order; and a second run on the same list returns
\* what the first run returned.
C16_Deterministic ==
    /\ pc = "loop" =>
          \A order \in IterationOrders(endpoints) :
             /\ IsEmptyIn(endpoints, order) = IsEmpty(endpoints)
             /\ ConsumeOneIn(endpoints, End(continuous_line), order)
                   = ConsumeOne(endpoints, End(continuous_line))
    /\ pc = "done" => result = CreateContinuousLinering(linestrings)

C16_Witness ==
    /\ pc = "done"
    /\ result.ok
    /\ Cardinality(IterationOrders(BuildEndpoints(linestrings))) = 6
    /\ Len(spliced) = 2
    /\ result = CreateContinuousLinering(linestrings)

\* C17: a single segment whose start equals its end is returned as it is,
\* and consume_one is never called on the endpoint index.
C17_SingleLoopUnchanged ==
    (/\ pc = "done"
     /\ Len(linestrings) = 1
     /\ Start(linestrings[1]) = End(linestrings[1]))
        => /\ result = Ok(linestrings[1])
           /\ queries = 0
           /\ spliced = <<>>

C17_Witness ==
    /\ pc = "done"
    /\ Len(linestrings) = 1
    /\ Len(linestrings[1]) = 4
    /\ Start(linestrings[1]) = End(linestrings[1])
    /\ Cardinality({linestrings[1][i] : i \in 1..4}) = 3
    /\ result = Ok(linestrings[1])
    /\ queries = 0

\* the list ls with the segment of id i stored in the opposite direction
WithReversed(ls, i) == [ls EXCEPT ![i + 1] = Reverse(ls[i + 1])]

\* C18: storing a segment of id 1 or higher whose start differs from its end
\* in the opposite direction gives the same outcome (the same ring, or the
\* same error); [p1,p2] followed by [p2,p1] or by [p1,p2] gives [p1,p2,p1].
C18_DirectionIrrelevant ==
    pc = "done" =>
        /\ \A i \in 1..(Len(linestrings) - 1) :
              Start(At(linestrings, i)) # End(At(linestrings, i))
                 => CreateContinuousLinering(WithReversed(linestrings, i)) = result
        /\ (/\ Len(linestrings) = 2
            /\ Len(linestrings[1]) = 2
            /\ Start(linestrings[1]) # End(linestrings[1])
            /\ linestrings[2] \in {linestrings[1], Reverse(linestrings[1])})
              => result = Ok(<<linestrings[1][1], linestrings[1][2],
                               linestrings[1][1]>>)

C18_Witness ==
    /\ pc = "done"
    /\ Len(linestrings) = 2
    /\ Len(linestrings[2]) = 3
    /\ Start(linestrings[2]) # End(linestrings[2])
    /\ End(linestrings[2]) = End(linestrings[1])
    /\ result.ok
    /\ Len(result.line) = 4
    /\ CreateContinuousLinering(WithReversed(linestrings, 1)) = result

\* C22: while unconsumed segments remain the call does not return a ring,
\* closed or not: it queries the index at the ring's end once more; a ring
\* is returned only when the index is empty, so two closed loops that share
\* no position give an error.
C22_ClosureCheckedAtEnd ==
    /\ [][(pc = "loop" /\ ~IsEmpty(endpoints))
            => (queries' = queries + 1 /\ ~result'.ok)]_vars
    /\ []((pc = "done" /\ result.ok) => IsEmpty(endpoints))
    /\ []((/\ pc = "done"
            /\ Len(linestrings) = 2
            /\ Start(linestrings[1]) = End(linestrings[1])
            /\ Start(linestrings[2]) = End(linestrings[2])
            /\ Start(linestrings[1]) # Start(linestrings[2]))
              => ~result.ok)

C22_Witness ==
    /\ pc = "done"
    /\ Len(linestrings) = 3
    /\ Len(linestrings[1]) = 3
    /\ Start(linestrings[1]) = End(linestrings[1])
    /\ Len(spliced) = 2
    /\ result.ok
    /\ Len(result.line) = 5

\* C23: every id consume_one returns for the ring's end belongs to a segment
\* that starts or ends at that position, so extend succeeds on it, and the
\* call never returns the non-continuous-path error.
C23_NonContinuousUnreachable ==
    /\ [][(pc = "loop" /\ Len(spliced') = Len(spliced) + 1)
            => LET next_index == spliced'[Len(spliced')]
                   next_linestring == At(linestrings, next_index)
               IN  /\ End(continuous_line)
                         \in {Start(next_linestring), End(next_linestring)}
                   /\ Extend(continuous_line, next_linestring).ok
                   /\ pc' = "loop"]_vars
    /\ [](result.err # NonContinuous)

C23_Witness ==
    /\ pc = "done"
    /\ Len(linestrings) = 3
    /\ Len(spliced) = 2
    /\ End(At(linestrings, spliced[1])) = End(At(linestrings, first_index))
    /\ Start(At(linestrings, spliced[1])) # End(At(linestrings, first_index))
    /\ result = Err(Unclosed)

\* the ids live in the index m
Live(m) == UNION {m[k] : k \in DOMAIN m}

\* C24: a call on n segments that has entered the loop returns, a ring or an
\* error; it runs the loop body at most n - 1 times, and every run of the
\* body either fails or removes exactly one live id from the index.
C24_Terminates ==
    /\ (pc = "loop") ~> (pc = "done" /\ result # Pending)
    /\ [](Len(linestrings) > 0 => queries <= Len(linestrings) - 1)
    /\ [][(pc = "loop" /\ queries' = queries + 1)
            => \/ pc' = "done" /\ ~result'.ok
               \/ /\ pc' = "loop"
                  /\ Live(endpoints') \subseteq Live(endpoints)
                  /\ Cardinality(Live(endpoints')) = Cardinality(Live(endpoints)) - 1]_vars

C24_Witness ==
    /\ pc = "done"
    /\ Len(linestrings) = 3
    /\ queries = 2
    /\ Live(endpoints) = {}
    /\ Live(BuildEndpoints(linestrings)) = {1, 2}

\* the sum of the lengths of the segments whose ids are listed in ids
RECURSIVE SumLen(_, _, _)
SumLen(ls, ids, i) ==
    IF i > Len(ids) THEN 0 ELSE Len(At(ls, ids[i])) + SumLen(ls, ids, i + 1)

\* C25: in the loop, (a) every unconsumed non-seed id is registered under
\* both of its endpoints and under no other key, every consumed id and the
\* seed under none; (b) the working ring begins with the seed's positions
\* and an iteration only appends to it; (c) its length is the sum of the
\* lengths of the consumed segments minus (number consumed - 1).
C25_LoopInvariant ==
    /\ [](pc = "loop" =>
            /\ \A i \in Ids(linestrings) :
                  KeysOf(endpoints, i) =
                     IF i = first_index \/ \E j \in 1..Len(spliced) : spliced[j] = i
                     THEN {}
                     ELSE {Start(At(linestrings, i)), End(At(linestrings, i))}
            /\ SubSeq(continuous_line, 1, Len(At(linestrings, first_index)))
                  = At(linestrings, first_index)
            /\ Len(continuous_line) =
                  Len(At(linestrings, first_index)) + SumLen(linestrings, spliced, 1)
                     - Len(spliced))
    /\ [][pc = "loop" =>
            SubSeq(continuous_line', 1, Len(continuous_line)) = continuous_line]_vars

C25_Witness ==
    /\ pc = "loop"
    /\ Len(linestrings) = 3
    /\ Len(spliced) = 1
    /\ Len(continuous_line) = 4
    /\ \E i \in Ids(linestrings) : Cardinality(KeysOf(endpoints, i)) = 2

\* the ids registered in the index m at position p
LiveAt(m, p) == IF p \in DOMAIN m THEN m[p] ELSE {}

\* C26: an iteration splices the smallest of the ids live at the ring's end,
\* also when several segments meet there, and that id is live no more; when
\* no id is live there consume_one returns nothing and the index is as it
\* was.
C26_LowestIdFirst ==
    [][(pc = "loop" /\ queries' = queries + 1) =>
         LET bucket == LiveAt(endpoints, End(continuous_line))
         IN  IF bucket # {}
             THEN /\ Len(spliced') = Len(spliced) + 1
                  /\ spliced'[Len(spliced')] \in bucket
                  /\ \A y \in bucket : spliced'[Len(spliced')] <= y
                  /\ spliced'[Len(spliced')] \notin Live(endpoints')
             ELSE /\ spliced' = spliced
                  /\ endpoints' = endpoints
                  /\ result' = Err(NoMatching)]_vars

C26_Witness ==
    /\ Len(linestrings) = 3
    /\ Len(spliced) >= 1
    /\ spliced[1] = 1
    /\ LiveAt(BuildEndpoints(linestrings), End(At(linestrings, first_index))) = {1, 2}
    /\ Start(At(linestrings, 1)) # Start(At(linestrings, 2))
    /\ pc = "done"

\* the ids of the non-seed segments whose start equals their end
ClosedNonSeed(ls) ==
    {i \in Ids(ls) \ {first_index} : Start(At(ls, i)) = End(At(ls, i))}

\* C27: a non-seed segment whose start equals its end is registered under
\* that one position, once: the second insert of the index loop changed
\* nothing, and inserting the pair again changes nothing; once consume_one
\* has returned its id, no key leads to it.
C27_LoopRegisteredOnce ==
    /\ [](pc = "loop" =>
            \A i \in ClosedNonSeed(linestrings) :
               LET p == Start(At(linestrings, i))
               IN  IF \E j \in 1..Len(spliced) : spliced[j] = i
                   THEN /\ KeysOf(endpoints, i) = {}
                        /\ \A k \in DOMAIN endpoints : Get(endpoints, k) # Some(i)
                   ELSE /\ KeysOf(endpoints, i) = {p}
                        /\ Insert(endpoints, p, i) = endpoints)
    /\ [](pc = "loop" =>
            \A i \in ClosedNonSeed(linestrings) :
               LET p == Start(At(linestrings, i))
                   m == IndexFrom(MultiMapDefault, SubSeq(linestrings, 1, i), 1)
               IN  Insert(Insert(m, p, i), p, i) = Insert(m, p, i))
    /\ [][(pc = "loop" /\ Len(spliced') = Len(spliced) + 1
             /\ spliced'[Len(spliced')] \in ClosedNonSeed(linestrings))
            => spliced'[Len(spliced')] \notin Live(endpoints')]_vars

C27_Witness ==
    /\ pc = "done"
    /\ result.ok
    /\ Len(linestrings) = 3
    /\ ClosedNonSeed(linestrings) = {1}
    /\ spliced = <<1, 2>>
    /\ KeysOf(BuildEndpoints(linestrings), 1) = {End(At(linestrings, first_index))}

\* C28: on a non-empty list of Lines the assembler of geojson.rs and the
\* assembler of geom.rs both fail, or both return a ring, the same one, having
\* spliced the same ids in the same order.
C28_AssemblersAgree ==
    (pc = "done" /\ Len(linestrings) > 0) =>
        LET g == GeojsonCreateContinuousLinering(linestrings)
        IN  /\ g.ok = result.ok
            /\ result.ok => (g.line = result.line /\ g.spliced = spliced)

C28_Witness ==
    /\ pc = "done"
    /\ result.ok
    /\ Len(linestrings) = 3
    /\ LiveAt(BuildEndpoints(linestrings), End(At(linestrings, first_index))) = {1, 2}
    /\ ClosedNonSeed(linestrings) # {}
    /\ GeojsonCreateContinuousLinering(linestrings) =
          GeojsonOk(result.line, spliced)

\* the lists that hold the segments of ls in another (or the same) order
Orderings(ls) ==
    {[i \in 1..Len(ls) |-> ls[f[i]]] :
        f \in {g \in [1..Len(ls) -> 1..Len(ls)] :
                  \A i, j \in 1..Len(ls) : g[i] = g[j] => i = j}}

\* C15 as stated: create_continuous_linering succeeds on every ordering of
\* the segments or fails on every ordering.
C15_AnyOrderSameOutcome ==
    pc = "done" =>
        \A other \in Orderings(linestrings) :
            CreateContinuousLinering(other).ok = result.ok

\* C15 amended: when no position is shared by more than two segment ends,
\* create_continuous_linering succeeds on every ordering of the segments or
\* fails on every ordering.
C15_UnbranchedAnyOrderSameOutcome ==
    (pc = "done" /\ NoBranching(linestrings)) =>
        \A other \in Orderings(linestrings) :
            CreateContinuousLinering(other).ok = result.ok

C15_Witness ==
    /\ pc = "done"
    /\ Len(linestrings) = 3
    /\ NoBranching(linestrings)
    /\ result.ok
    /\ Cardinality(Orderings(linestrings)) = 6
    /\ \A other \in Orderings(linestrings) : CreateContinuousLinering(other).ok

(***************************************************************************)
(* Properties of MultiMap (specification SpecMM).                          *)
(***************************************************************************)
\* C6: after consume_one(key) returns v, v is reachable under no key of the
\* map (get returns it for no key), and every other value is registered
\* under exactly the keys it had before.
C6_ConsumedEverywhere ==
    (mm_call.op = "consume_one" /\ mm_call.ret.some) =>
        LET v == mm_call.ret.v
        IN  /\ KeysOf(mm, v) = {}
            /\ \A k \in DOMAIN mm \cup MMKeys : Get(mm, k) # Some(v)
            /\ DOMAIN mm = DOMAIN mm_call.before
            /\ \A w \in MMValues \ {v} : KeysOf(mm, w) = KeysOf(mm_call.before, w)

C6_Witness ==
    /\ mm_call.op = "consume_one"
    /\ mm_call.ret.some
    /\ \E k \in DOMAIN mm_call.before :
          k # mm_call.key /\ mm_call.ret.v \in mm_call.before[k]
    /\ \E w \in MMValues : w # mm_call.ret.v /\ w \in mm[mm_call.key]

\* C19: is_empty is true exactly when no value inserted so far is still
\* unconsumed, also when the map still holds (emptied) buckets.
C19_EmptyIffAllConsumed ==
    IsEmpty(mm) <=> live = {}

C19_Witness ==
    /\ mm_call.op = "consume_one"
    /\ mm_call.ret.some
    /\ Cardinality(DOMAIN mm) = 2
    /\ live = {}
    /\ IsEmpty(mm)

(***************************************************************************)
(* Properties of as_polygon (specification SpecArea).                      *)
(***************************************************************************)
\* an outer member whose way, or one of whose nodes, is absent
UnresolvedOuter(child) ==
    /\ child.role = "outer"
    /\ \/ child.member.kind = "absent"
       \/ \E i \in 1..Len(child.member.nodes) : child.member.nodes[i] \notin DOMAIN Nodes

\* an outer member that resolves to fewer than two positions
ShortOuter(child) ==
    /\ child.role = "outer"
    /\ child.member.kind = "way"
    /\ ToCoords(child.member.nodes).some
    /\ Len(child.member.nodes) < 2

\* C5 as stated: every polygon as_polygon produces has a single exterior
\* ring, closed, for which is_clockwise is false.
C5_RingClosedCounterClockwise ==
    (apc = "returned" /\ polygon.ok) =>
        /\ Len(polygon.rings) = 1
        /\ Start(polygon.rings[1]) = End(polygon.rings[1])
        /\ ~IsClockwise(polygon.rings[1])

\* C9 as stated: an area with an outer member whose way or node is absent
\* from the dataset yields no polygon (here: every other outer member is a
\* resolved way of at least two positions).
C9_UnresolvedMemberFails ==
    (/\ apc = "returned"
     /\ \E i \in 1..Len(refs) : UnresolvedOuter(refs[i])
     /\ \A i \in 1..Len(refs) : ~ShortOuter(refs[i]))
        => ~polygon.ok

\* C10 as stated: an area with a resolved outer member of fewer than two
\* positions yields no polygon (here: every outer member is resolved).
C10_DegenerateSegmentFails ==
    (/\ apc = "returned"
     /\ \E i \in 1..Len(refs) : ShortOuter(refs[i])
     /\ \A i \in 1..Len(refs) : ~UnresolvedOuter(refs[i]))
        => ~polygon.ok

\* C11: an area none of whose members has the role "outer" yields no
\* polygon: as_polygon returns the error of create_continuous_linering on an
\* empty list ("no linestrings"), which is returned before the list is indexed.
C11_NoOuterMembersFails ==
    (apc = "returned" /\ \A i \in 1..Len(refs) : refs[i].role # "outer")
        => /\ CollectLinestrings(refs, 1) = <<>>
           /\ polygon = ErrPolygon(NoLinestrings)

C11_Witness ==
    /\ apc = "returned"
    /\ Len(refs) = 2
    /\ \A i \in 1..Len(refs) : refs[i].role = "inner"
    /\ refs[1].member = WayMember(<<1, 2, 1>>)
    /\ polygon = ErrPolygon(NoLinestrings)

\* the members of rs whose role is "outer", in their order
OuterOnly(rs) == SelectSeq(rs, LAMBDA child : child.role = "outer")

\* C20: as_polygon returns what it returns on the relation without its
\* members of a role other than "outer": such members, whatever they are,
\* change neither the ring nor the failure.
C20_NonOuterIgnored ==
    apc = "returned" => polygon = AsPolygon(Relation(OuterOnly(refs)))

C20_Witness ==
    /\ apc = "returned"
    /\ Len(refs) = 2
    /\ refs[1] = [role |-> "inner", member |-> WayMember(<<2, 3>>)]
    /\ refs[2] = [role |-> "outer", member |-> WayMember(<<1, 1>>)]
    /\ polygon.ok
    /\ polygon = AsPolygon(Relation(<<refs[2]>>))

(***************************************************************************)
(* Properties of the orientation normalizer (specification SpecOrient).    *)
(***************************************************************************)
\* C12 as stated: a second pass of the normalizer leaves the output of the
\* first pass unchanged, and a ring for which is_clockwise is false is left
\* in its position order.
C12_NormalizationIdempotent ==
    /\ opc = "renormalized" => renormalized = normalized
    /\ (opc # "build" /\ ~IsClockwise(ring)) => normalized = ring

\* the positions that occur in ring r
DistinctPositions(r) == {r[i] : i \in 1..Len(r)}

\* C13: for a ring of fewer than 3 distinct positions the cyclic shoelace
\* sum is exactly 0, is_clockwise is false and the ring is not reversed.
C13_DegenerateRingNotClockwise ==
    (opc # "build" /\ Cardinality(DistinctPositions(ring)) < 3) =>
        /\ ShoelaceFrom(ring, 1, 0) = 0
        /\ ShoelaceFrom(Reverse(ring), 1, 0) = 0
        /\ ~IsClockwise(ring)
        /\ normalized = ring

C13_Witness ==
    /\ opc = "renormalized"
    /\ Len(ring) = 3
    /\ ring[1] # ring[2]
    /\ ring[3] = ring[1]
    /\ normalized = ring
    /\ renormalized = ring

\* C14 as stated: is_clockwise is true exactly when the cyclic sum is greater
\* than 0, and a ring and its reverse are never both clockwise.
C14_RingAndReverseOpposite ==
    opc # "build" =>
        /\ IsClockwise(ring) <=> (ShoelaceFrom(ring, 1, 0) > 0)
        /\ ~(IsClockwise(ring) /\ IsClockwise(Reverse(ring)))

(***************************************************************************)
(* Properties of Line::extend (specification SpecExtend).                  *)
(***************************************************************************)
\* C21: extend appends the tail without its first position when the tail
\* starts at the end of the Line; otherwise, when the tail ends there, it
\* appends the tail's positions from the last but one back to the first;
\* otherwise it returns the non-continuous-path error and the Line is as it
\* was.  On success the earlier positions are kept, the shared position is
\* there once, and the new end is the tail's other endpoint.
C21_ExtendAppends ==
    ext_pc = "returned" =>
        LET n == Len(ext_self)
            k == Len(ext_tail)
        IN  IF ext_tail[1] = ext_self[n]
            THEN /\ ext_ret.ok
                 /\ Len(ext_after) = n + k - 1
                 /\ \A i \in 1..n : ext_after[i] = ext_self[i]
                 /\ \A i \in 2..k : ext_after[n + i - 1] = ext_tail[i]
                 /\ ext_after[n + k - 1] = ext_tail[k]
            ELSE IF ext_tail[k] = ext_self[n]
                 THEN /\ ext_ret.ok
                      /\ Len(ext_after) = n + k - 1
                      /\ \A i \in 1..n : ext_after[i] = ext_self[i]
                      /\ \A i \in 1..(k - 1) : ext_after[n + i] = ext_tail[k - i]
                      /\ ext_after[n + k - 1] = ext_tail[1]
                 ELSE /\ ext_ret = Err(NonContinuous)
                      /\ ext_after = ext_self

C21_Witness ==
    /\ ext_pc = "returned"
    /\ Len(ext_tail) = 4
    /\ ext_tail[1] = ext_self[Len(ext_self)]
    /\ ext_tail[4] = ext_self[Len(ext_self)]
    /\ ext_tail[2] # ext_tail[3]
    /\ ext_ret.ok
    /\ ext_after = ext_self \o <<ext_tail[2], ext_tail[3], ext_tail[4]>>

(***************************************************************************)
(* Properties of write (specification SpecWrite).                          *)
(***************************************************************************)
\* C4: an area whose conversion fails emits no feature line and does not end
\* the loop (it is reported and the next object is taken), and write returns
\* an error only when a write to the output has failed.
C4_FailureIsolated ==
    /\ [][(qualifying' = qualifying + 1 /\ ~feature'.ok)
            => /\ write'.out = write.out
               /\ write'.logged = write.logged + 1
               /\ write'.wret = "running"]_vars
    /\ [](write.wret = "Err" => write.io_failed)

C4_Witness ==
    /\ write.wret = "Ok"
    /\ qualifying = 2
    /\ write.logged = 1
    /\ write.out = 1
    /\ feature.ok

====
